---- MODULE Spec2Model ----
(***************************************************************************)
(* A model of measure_ai_proficiency: RepoScanner.scan() and the pieces it *)
(* is made of (pattern matching, per-level coverage, level gating, the     *)
(* weighted score and the cross-reference / quality bonus), run against a  *)
(* small file tree that the environment edits between scans.               *)
(*                                                                         *)
(* Paths and patterns are sequences of tokens: "/" separates segments, "*" *)
(* is the wildcard, every other token is a literal piece of a name.        *)
(* Fractions (coverage, scores) are exact: a pair <<numerator,denominator>>*)
(* kept in lowest terms.                                                   *)
(***************************************************************************)
EXTENDS Integers, Sequences, FiniteSets, TLC

\* -------------------------------------------------------------------------
\* Bounds of the model
\* -------------------------------------------------------------------------

\* Largest file size (bytes) a file of the tree may have.
MaxSize == 101

\* -------------------------------------------------------------------------
\* Exact fractions
\* -------------------------------------------------------------------------

RECURSIVE GCD(_, _)
GCD(a, b) == IF b = 0 THEN a ELSE GCD(b, a % b)

Frac(n, d) == LET g == GCD(n, d) IN IF g = 0 THEN <<0, 1>> ELSE <<n \div g, d \div g>>

FAdd(x, y) == Frac(x[1] * y[2] + y[1] * x[2], x[2] * y[2])
FMul(x, y) == Frac(x[1] * y[1], x[2] * y[2])
FDiv(x, y) == Frac(x[1] * y[2], x[2] * y[1])
FLe(x, y) == x[1] * y[2] <= y[1] * x[2]
FLt(x, y) == x[1] * y[2] < y[1] * x[2]
FMin(x, y) == IF FLe(x, y) THEN x ELSE y
FInt(n) == <<n, 1>>

RECURSIVE FSum(_)
FSum(s) == IF s = <<>> THEN FInt(0) ELSE FAdd(Head(s), FSum(Tail(s)))

\* -------------------------------------------------------------------------
\* Sequences
\* -------------------------------------------------------------------------

Range(s) == {s[i] : i \in DOMAIN s}

RECURSIVE Flatten(_)
Flatten(ss) == IF ss = <<>> THEN <<>> ELSE Head(ss) \o Flatten(Tail(ss))

\* `sub in s` for Python strings: sub occurs in s as a contiguous run.
Contains(s, sub) ==
    \E i \in 0..(Len(s) - Len(sub)) : SubSeq(s, i + 1, i + Len(sub)) = sub

\* str.split("/") and "/".join(...)
RECURSIVE SplitFrom(_, _, _)
SplitFrom(p, i, part) ==
    IF i > Len(p) THEN << part >>
    ELSE IF p[i] = "/" THEN << part >> \o SplitFrom(p, i + 1, << >>)
         ELSE SplitFrom(p, i + 1, Append(part, p[i]))

Split(p) == SplitFrom(p, 1, << >>)

RECURSIVE Join(_)
Join(parts) ==
    IF Len(parts) = 1 THEN parts[1] ELSE parts[1] \o <<"/">> \o Join(Tail(parts))

\* Path / part
Child(base, part) == IF base = <<>> THEN part ELSE base \o <<"/">> \o part

\* p lies strictly below directory d (d = <<>> is the scan root).
Below(p, d) ==
    \/ d = <<>> /\ p # <<>>
    \/ /\ Len(p) > Len(d) + 1
       /\ SubSeq(p, 1, Len(d)) = d
       /\ p[Len(d) + 1] = "/"

\* The proper ancestors of a path, as paths below the scan root.
Ancestors(p) == {SubSeq(p, 1, i - 1) : i \in {j \in DOMAIN p : p[j] = "/"}}

\* -------------------------------------------------------------------------
\* The rule table (config.py), abridged to the patterns the modelled tree
\* can satisfy; level numbers, weights and pattern texts are the source's.
\* -------------------------------------------------------------------------

ClaudeMd == <<"CLAUDE", ".md">>
CopilotMd == <<".github", "/", "copilot-instructions", ".md">>
ArchitectureMd == <<"ARCHITECTURE", ".md">>
SkillMd == <<".claude", "/", "skills", "/", "review", "/", "SKILL", ".md">>
ReviewerAgentMd == <<".github", "/", "agents", "/", "reviewer", ".agent", ".md">>
AgentsDir == <<"agents">>

LEVEL_1_PATTERNS ==
    [ file_patterns |-> << ClaudeMd, CopilotMd >>,
      directory_patterns |-> << >>,
      weight |-> <<1, 1>> ]

LEVEL_2_PATTERNS ==
    [ file_patterns |-> << <<".github", "/", "*", ".md">>, ArchitectureMd >>,
      directory_patterns |-> << >>,
      weight |-> <<3, 2>> ]

LEVEL_3_PATTERNS ==
    [ file_patterns |-> << <<".claude", "/", "skills", "/", "*", "/", "SKILL", ".md">>,
                           <<".claude", "/", "skills", "/", "*", "/", "*", "/", "*", ".md">>,
                           <<".github", "/", "agents", "/", "*", ".agent", ".md">>,
                           <<".github", "/", "agents", "/", "*", ".md">> >>,
      directory_patterns |-> << <<".claude", "/", "skills">>,
                                <<".github", "/", "agents">>,
                                AgentsDir >>,
      weight |-> <<2, 1>> ]

LEVEL_4_PATTERNS ==
    [ file_patterns |-> << ReviewerAgentMd >>,
      directory_patterns |-> << AgentsDir >>,
      weight |-> <<3, 1>> ]

LEVELS == << LEVEL_1_PATTERNS, LEVEL_2_PATTERNS, LEVEL_3_PATTERNS, LEVEL_4_PATTERNS >>

CORE_AI_FILES ==
    { ClaudeMd, <<"AGENTS", ".md">>, CopilotMd, <<".cursorrules">> }

INSTRUCTION_FILES ==
    { ClaudeMd, <<"AGENTS", ".md">>, <<".cursorrules">>, <<"CODEX", ".md">>, CopilotMd,
      <<".copilot-instructions", ".md">>, <<".github", "/", "AGENTS", ".md">> }

exclude_dirs ==
    { "node_modules", "venv", ".venv", "env", ".env", "dist", "build", "__pycache__",
      ".git", ".svn", "vendor", "target", "out", ".next", ".nuxt", "coverage",
      ".pytest_cache", ".tox", "eggs", ".mypy_cache", ".ruff_cache", "site-packages" }

\* FileMatch.is_substantive: size_bytes > 100
SubstantiveBytes == 100

\* -------------------------------------------------------------------------
\* The environment: the scanned tree, where it lives, its config file
\* -------------------------------------------------------------------------

\* Files below directories that _glob_search leaves out.
BuildSkillMd == << ".claude", "/", "skills", "/", "build", "/", "SKILL", ".md" >>
VendorNotesMd == << ".github", "/", "vendor", "/", "notes", ".md" >>
ExcludedDirFiles == { BuildSkillMd, VendorNotesMd }

\* ARCHITECTURE.md in the places where _resolve_target looks for it.
DocsArchitectureMd == << "docs", "/", "ARCHITECTURE", ".md" >>
GithubArchitectureMd == << ".github", "/", "ARCHITECTURE", ".md" >>
DotClaudeArchitectureMd == << ".claude", "/", "ARCHITECTURE", ".md" >>
LinkTargetFiles ==
    { ArchitectureMd, DocsArchitectureMd, GithubArchitectureMd, DotClaudeArchitectureMd }

MainFiles == { ClaudeMd, CopilotMd, ArchitectureMd, SkillMd, ReviewerAgentMd }
FilePaths == MainFiles \cup ExcludedDirFiles \cup LinkTargetFiles
FileOrder ==
    << ClaudeMd, CopilotMd, ArchitectureMd, SkillMd, ReviewerAgentMd,
       BuildSkillMd, VendorNotesMd,
       DocsArchitectureMd, GithubArchitectureMd, DotClaudeArchitectureMd >>
DirPaths == { AgentsDir }

\* Absolute location of the scan root (Path(repo_path).resolve()), as parts.
RepoRoot == << "home", "dev", "repo" >>

\* What a file holds, as far as the scanner looks at it: its size and what
\* the quality and cross-reference expressions find in its text. StubDoc is
\* a heading and a few words padded to the largest size that is not
\* substantive; ProseDoc is three headings, a link to ARCHITECTURE.md, two
\* commands in backticks, a path and one "never", filled up to MaxSize bytes.
StubDoc ==
    [ size_bytes |-> SubstantiveBytes, words |-> 13, sections |-> 1, paths |-> 0,
      commands |-> 0, constraints |-> 0, matches |-> << >> ]

ProseDoc ==
    [ size_bytes |-> MaxSize, words |-> 18, sections |-> 3, paths |-> 1,
      commands |-> 2, constraints |-> 1,
      matches |-> << [ line |-> 4, ref_type |-> "markdown_link",
                       target |-> ArchitectureMd ] >> ]

Docs == { StubDoc, ProseDoc }

\* "See [x](./ARCHITECTURE.md)": 27 bytes, two words, one path, and the one
\* match that the markdown_link expression finds on line 1.
LinkDoc ==
    [ size_bytes |-> 27, words |-> 2, sections |-> 0, paths |-> 1,
      commands |-> 0, constraints |-> 0,
      matches |-> << [ line |-> 1, ref_type |-> "markdown_link",
                       target |-> << ".", "/", "ARCHITECTURE", ".md" >> ] >> ]

\* Most links a document of the cross-reference bonus scans holds.
MaxLinks == 7

\* The i-th file a document links to: ARCHITECTURE.md, then guides that no
\* tree holds.
Target(i) == IF i = 1 THEN ArchitectureMd ELSE << "GUIDE", ToString(i), ".md" >>

\* k lines "[g](<target>)", one link each: nothing else for the quality
\* expressions to find; with k = 0 the file is empty.
LinksDoc(k) ==
    [ size_bytes |-> 15 * k, words |-> k, sections |-> 0, paths |-> 0,
      commands |-> 0, constraints |-> 0,
      matches |-> [ i \in 1..k |-> [ line |-> i, ref_type |-> "markdown_link",
                                     target |-> Target(i) ] ] ]

BonusDocs == { StubDoc, ProseDoc } \cup { LinksDoc(k) : k \in 0..MaxLinks }

\* Largest counts of headers, of path or command mentions, of constraint
\* words and of words in the documents of the quality scans.
MaxSections == 10
MaxMentions == 6
MaxConstraints == 4
MaxWords == 201

\* A text of `sections` lines "# a", then "/a" `paths` times, "`a`"
\* `commands` times, "never" `constraints` times and "w" `filler` times:
\* its size, its words (content.split()) and what the quality expressions
\* find in it; the reference expressions find nothing.
TextDoc(sections, paths, commands, constraints, filler) ==
    [ size_bytes |-> 4 * sections + 3 * paths + 4 * commands + 6 * constraints
                     + 2 * filler,
      words |-> 2 * sections + paths + commands + constraints + filler,
      sections |-> sections, paths |-> paths, commands |-> commands,
      constraints |-> constraints, matches |-> << >> ]

SectionCounts == { 0, 4, 5, MaxSections }
MentionCounts == { 0, 3, MaxMentions }
ConstraintCounts == { 0, 2, MaxConstraints }
WordCounts == { 49, 50, 51, 199, 200, MaxWords }

QualityDocs ==
    { TextDoc(s, p, c, k, 0) :
        s \in SectionCounts, p \in MentionCounts, c \in MentionCounts,
        k \in ConstraintCounts }
    \cup { TextDoc(0, 0, 0, 0, w) : w \in WordCounts }

\* "see ./ARCHITECTURE.md and `ARCHITECTURE.md`", then a line
\* "`ARCHITECTURE.md`": on line 1 the relative_path expression and the
\* file_mention expression find the same file.
MentionTwiceDoc ==
    [ size_bytes |-> 61, words |-> 5, sections |-> 0, paths |-> 1,
      commands |-> 0, constraints |-> 0,
      matches |-> << [ line |-> 1, ref_type |-> "relative_path",
                       target |-> << ".", "/", "ARCHITECTURE", ".md" >> ],
                     [ line |-> 1, ref_type |-> "file_mention",
                       target |-> ArchitectureMd ],
                     [ line |-> 2, ref_type |-> "file_mention",
                       target |-> ArchitectureMd ] >> ]

\* "`ARCHITECTURE.md` [a](ARCHITECTURE.md)"
MentionThenLinkDoc ==
    [ size_bytes |-> 38, words |-> 2, sections |-> 0, paths |-> 0,
      commands |-> 0, constraints |-> 0,
      matches |-> << [ line |-> 1, ref_type |-> "file_mention",
                       target |-> ArchitectureMd ],
                     [ line |-> 1, ref_type |-> "markdown_link",
                       target |-> ArchitectureMd ] >> ]

\* "`ARCHITECTURE.md` `ARCHITECTURE.md`"
MentionRepeatedDoc ==
    [ size_bytes |-> 35, words |-> 2, sections |-> 0, paths |-> 0,
      commands |-> 0, constraints |-> 0,
      matches |-> << [ line |-> 1, ref_type |-> "file_mention",
                       target |-> ArchitectureMd ],
                     [ line |-> 1, ref_type |-> "file_mention",
                       target |-> ArchitectureMd ] >> ]

DedupeDocs == { MentionTwiceDoc, MentionThenLinkDoc, MentionRepeatedDoc, ProseDoc }

\* "[c](.github/copilot-instructions.md)"
DotGithubLinkDoc ==
    [ size_bytes |-> 36, words |-> 1, sections |-> 0, paths |-> 1,
      commands |-> 0, constraints |-> 0,
      matches |-> << [ line |-> 1, ref_type |-> "markdown_link",
                       target |-> CopilotMd ] >> ]

\* "see .claude/skills/ for more"
DotClaudeDirDoc ==
    [ size_bytes |-> 28, words |-> 4, sections |-> 0, paths |-> 1,
      commands |-> 0, constraints |-> 0,
      matches |-> << [ line |-> 1, ref_type |-> "directory_ref",
                       target |-> << ".claude", "/", "skills", "/" >> ] >> ]

\* "see ../CLAUDE.md"
ParentPathDoc ==
    [ size_bytes |-> 16, words |-> 2, sections |-> 0, paths |-> 1,
      commands |-> 0, constraints |-> 0,
      matches |-> << [ line |-> 1, ref_type |-> "relative_path",
                       target |-> << "..", "/", "CLAUDE", ".md" >> ] >> ]

DottedDocs == { DotGithubLinkDoc, DotClaudeDirDoc, ParentPathDoc, LinkDoc }

Absent == [ size_bytes |-> -1 ]

\* thresholds: section of .ai-proficiency.yaml, as level -> percent
NoOverride == [ l \in {} |-> 0 ]
ThresholdConfigs == { NoOverride, [ l \in {3} |-> 14 ], [ l \in {4} |-> 51 ] }

VARIABLES
    files,        \* the tree: path -> document, or Absent
    dirs,         \* directories made on their own (parents of files exist anyway)
    repo_path,    \* RepoScanner.repo_path
    root_kind,    \* what repo_path names: a directory, a file, or nothing
    yaml,         \* thresholds of the repository's .ai-proficiency.yaml
    yaml_categories, \* its skip_recommendations and focus_areas
    dir_cache,    \* RepoScanner._dir_cache: directory pattern -> bool
    score,        \* the RepoScore of the last scan of the tree as it is now
    parked,       \* a second scanner and its repository, while it is not running
    out           \* what the last call of a reporter or of the GitHub scanner gave

vars ==
    << files, dirs, repo_path, root_kind, yaml, yaml_categories, dir_cache, score,
       parked, out >>

\* The directories above each path of the tree, and each path's segments.
ParentsOf == [ p \in FilePaths \cup DirPaths |-> Ancestors(p) ]
PartsOf == [ p \in FilePaths |-> Split(p) ]

\* Nothing lies below a root that is not a directory.
IsFile(p) == root_kind = "dir" /\ p \in FilePaths /\ files[p] # Absent

IsDir(p) ==
    /\ root_kind = "dir"
    /\ \/ p = << >>
       \/ p \in dirs
       \/ \E f \in FilePaths : files[f] # Absent /\ p \in ParentsOf[f]
       \/ \E d \in dirs : p \in ParentsOf[d]

PathExists(p) == IF p = << >> THEN root_kind # "missing" ELSE IsFile(p) \/ IsDir(p)

\* -------------------------------------------------------------------------
\* Pattern matching
\* -------------------------------------------------------------------------

\* fnmatch.fnmatch(name, pat): "*" matches any run of characters, "/" included.
RECURSIVE fnmatch(_, _)
fnmatch(name, pat) ==
    IF pat = << >> THEN name = << >>
    ELSE IF Head(pat) = "*"
         THEN \E k \in 0..Len(name) : fnmatch(SubSeq(name, k + 1, Len(name)), Tail(pat))
         ELSE name # << >> /\ Head(name) = Head(pat) /\ fnmatch(Tail(name), Tail(pat))

\* The parts of every wildcard file pattern of the rule table, the patterns
\* _find_matches hands to _glob_search, and the paths of the tree each of
\* those matches by name.
WildcardPatterns ==
    { p \in UNION { Range(LEVELS[l].file_patterns) : l \in DOMAIN LEVELS } :
        "*" \in Range(p) }

PatternParts == [ p \in WildcardPatterns |-> Split(p) ]

GlobPatterns ==
    UNION { { Join(SubSeq(PatternParts[p], i, Len(PatternParts[p]))) :
                i \in 1..Len(PatternParts[p]) } : p \in WildcardPatterns }

FnmatchNames ==
    [ pattern \in GlobPatterns |-> SelectSeq(FileOrder, LAMBDA f : fnmatch(f, pattern)) ]

\* Only the name of the item itself looked up among the excluded names.
ExcludedByName(item) ==
    LET parts == PartsOf[item]
    IN Len(parts[Len(parts)]) = 1 /\ parts[Len(parts)][1] \in exclude_dirs

\* any(part in exclude_dirs for part in item.parts); item is an absolute path.
Excluded(item) ==
    \/ \E i \in DOMAIN repo_path : repo_path[i] \in exclude_dirs
    \/ \E i \in DOMAIN PartsOf[item] :
           Len(PartsOf[item][i]) = 1 /\ PartsOf[item][i][1] \in exclude_dirs

\* _glob_search: the files below base_dir, outside the excluded directories,
\* whose path relative to the scan root matches the pattern.
_glob_search(base_dir, pattern) ==
    IF ~PathExists(base_dir) THEN << >>
    ELSE SelectSeq(FnmatchNames[pattern],
                   LAMBDA f : IsFile(f) /\ Below(f, base_dir) /\ ~Excluded(f))

\* The loop of _find_matches over the parts of a wildcard pattern, from part i.
RECURSIVE GlobFrom(_, _, _)
GlobFrom(parts, i, base_dir) ==
    IF i > Len(parts) THEN << >>
    ELSE IF "*" \in Range(parts[i])
         THEN _glob_search(base_dir, Join(SubSeq(parts, i, Len(parts))))
         ELSE IF ~PathExists(Child(base_dir, parts[i])) THEN << >>
              ELSE GlobFrom(parts, i + 1, Child(base_dir, parts[i]))

_find_matches(pattern) ==
    IF "*" \in Range(pattern)
    THEN GlobFrom(PatternParts[pattern], 1, << >>)
    ELSE IF IsFile(pattern) THEN << pattern >> ELSE << >>

\* _directory_exists, reading the cache `cache`
_directory_exists(pattern, cache) ==
    IF pattern \in DOMAIN cache THEN cache[pattern] ELSE IsDir(pattern)

\* _create_file_match; gone: the discovered paths that are no longer there
\* when stat() runs, for which the FileMatch keeps its defaults.
_create_file_match(path, pattern, level, gone) ==
    IF path \notin gone
    THEN [ path |-> path, pattern |-> pattern, level |-> level,
           size_bytes |-> files[path].size_bytes, last_modified |-> "mtime" ]
    ELSE [ path |-> path, pattern |-> pattern, level |-> level,
           size_bytes |-> 0, last_modified |-> "None" ]

is_substantive(file_match) == file_match.size_bytes > SubstantiveBytes

\* -------------------------------------------------------------------------
\* Level scorer
\* -------------------------------------------------------------------------

MatchesOf(pattern, level, gone) ==
    LET m == _find_matches(pattern)
    IN [ i \in DOMAIN m |-> _create_file_match(m[i], pattern, level, gone) ]

\* total_patterns = len(set(file_patterns + directory_patterns))
TotalPatterns(config) ==
    Cardinality(Range(config.file_patterns \o config.directory_patterns))

\* Coverage counted over the patterns left unmatched.
CoverageOfUnmatched(matched_patterns, total_patterns) ==
    IF total_patterns > 0
    THEN Frac((total_patterns - Cardinality(matched_patterns)) * 100, total_patterns)
    ELSE FInt(0)

\* coverage_percent = len(matched_patterns) / total_patterns * 100, 0 without patterns
CoveragePercent(matched_patterns, total_patterns) ==
    IF total_patterns > 0
    THEN Frac(Cardinality(matched_patterns) * 100, total_patterns)
    ELSE FInt(0)

\* One entry per match instead of one per pattern.
MatchedEntries(matched_files, matched_directories) ==
    { << matched_files[i].pattern, matched_files[i].path >> : i \in DOMAIN matched_files }
        \cup Range(matched_directories)

\* matched_patterns: set of the patterns added for a file or a directory match
MatchedPatterns(matched_files, matched_directories) ==
    { matched_files[i].pattern : i \in DOMAIN matched_files }
        \cup Range(matched_directories)

_scan_level(level_num, config, cache, gone) ==
    LET mf == Flatten([ i \in DOMAIN config.file_patterns |->
                          MatchesOf(config.file_patterns[i], level_num, gone) ])
        md == SelectSeq(config.directory_patterns,
                        LAMBDA p : _directory_exists(p, cache))
        matched_patterns == MatchedPatterns(mf, md)
        total == TotalPatterns(config)
    IN [ level |-> level_num,
         matched_files |-> mf,
         matched_directories |-> md,
         total_patterns |-> total,
         coverage_percent |-> CoveragePercent(matched_patterns, total) ]

file_count(ls) == Len(ls.matched_files)

substantive_file_count(ls) ==
    Cardinality({ i \in DOMAIN ls.matched_files : is_substantive(ls.matched_files[i]) })

\* -------------------------------------------------------------------------
\* Instruction files, cross-references and content quality
\* -------------------------------------------------------------------------

\* Path.glob(pattern): segment by segment, "*" stays inside its segment.
PathGlob(path, pattern) ==
    LET pp == Split(path)
        qq == Split(pattern)
    IN /\ Len(pp) = Len(qq)
       /\ \A i \in DOMAIN pp : fnmatch(pp[i], qq[i])

scoped_patterns ==
    << <<".github", "/", "instructions", "/", "*", ".instructions", ".md">>,
       <<".cursor", "/", "rules", "/", "*", ".md">>,
       <<".claude", "/", "skills", "/", "*", "/", "SKILL", ".md">>,
       <<".github", "/", "skills", "/", "*", "/", "SKILL", ".md">>,
       <<".cursor", "/", "skills", "/", "*", "/", "SKILL", ".md">>,
       <<".copilot", "/", "skills", "/", "*", "/", "SKILL", ".md">>,
       <<".codex", "/", "skills", "/", "*", "/", "SKILL", ".md">> >>

\* _find_instruction_files: the known names, then the scoped patterns.
ScopedNames ==
    [ i \in DOMAIN scoped_patterns |->
        SelectSeq(FileOrder, LAMBDA f : PathGlob(f, scoped_patterns[i])) ]

_find_instruction_files ==
    SelectSeq(FileOrder, LAMBDA f : IsFile(f) /\ f \in INSTRUCTION_FILES)
    \o Flatten([ i \in DOMAIN scoped_patterns |-> SelectSeq(ScopedNames[i], IsFile) ])

\* Only the path itself tried, none of the documentation directories.
ResolveDirectOnly(target) == PathExists(target)

\* self.repo_path / target: pathlib drops the "/" a target ends with.
PurePath(target) ==
    IF target # << >> /\ target[Len(target)] = "/"
    THEN SubSeq(target, 1, Len(target) - 1) ELSE target

\* _resolve_target
_resolve_target(target) ==
    \/ PathExists(PurePath(target))
    \/ \E prefix \in { <<"docs">>, <<".github">>, <<".claude">> } :
           PathExists(Child(prefix, PurePath(target)))

\* A name without the dots it starts with.
Undotted(name) ==
    CASE name = ".github" -> "github"
      [] name = ".claude" -> "claude"
      [] name = ".md" -> "md"
      [] name = ".agent" -> "agent"
      [] OTHER -> name

\* target.lstrip('./'): every leading "." and "/" goes, whatever they spell.
RECURSIVE lstrip(_)
lstrip(target) ==
    IF target = << >> THEN << >>
    ELSE IF Head(target) \in { ".", "..", "/" } THEN lstrip(Tail(target))
         ELSE << Undotted(Head(target)) >> \o Tail(target)

\* The reference expressions, in the order CROSS_REF_PATTERNS.items() gives.
CROSS_REF_PATTERNS ==
    << "markdown_link", "file_mention", "relative_path", "directory_ref" >>

FamilyIndex(ref_type) ==
    CHOOSE i \in DOMAIN CROSS_REF_PATTERNS : CROSS_REF_PATTERNS[i] = ref_type

\* The matches in the order the three loops of _extract_references reach
\* them: line by line, on a line expression by expression, and for one
\* expression from left to right. `matches` holds them from left to right.
RECURSIVE InLoopOrder(_, _)
InLoopOrder(matches, left) ==
    IF left = {} THEN << >>
    ELSE LET Before(i, j) ==
                 \/ matches[i].line < matches[j].line
                 \/ /\ matches[i].line = matches[j].line
                    /\ \/ FamilyIndex(matches[i].ref_type) < FamilyIndex(matches[j].ref_type)
                       \/ /\ matches[i].ref_type = matches[j].ref_type
                          /\ i < j
             first == CHOOSE i \in left : \A j \in left \ {i} : Before(i, j)
         IN << first >> \o InLoopOrder(matches, left \ {first})

\* The references taken in the order of the text: the first match of a
\* (target, line) from the left is kept, whatever expression found it.
ExtractInTextOrder(source, doc) ==
    LET normalized == [ i \in DOMAIN doc.matches |-> lstrip(doc.matches[i].target) ]
        kept == SelectSeq([ i \in DOMAIN doc.matches |-> i ],
                          LAMBDA i : \A j \in 1..(i - 1) :
                              \/ normalized[j] # normalized[i]
                              \/ doc.matches[j].line # doc.matches[i].line)
    IN [ k \in DOMAIN kept |->
           [ source_file |-> source,
             target |-> normalized[kept[k]],
             reference_type |-> doc.matches[kept[k]].ref_type,
             line_number |-> doc.matches[kept[k]].line,
             is_resolved |-> _resolve_target(normalized[kept[k]]) ] ]

\* _extract_references, on the matches the reference expressions find in the
\* text: one reference for each (target, line), the first the loops reach.
_extract_references(source, doc) ==
    LET order == InLoopOrder(doc.matches, DOMAIN doc.matches)
        normalized == [ i \in DOMAIN doc.matches |-> lstrip(doc.matches[i].target) ]
        kept == SelectSeq([ k \in DOMAIN order |-> k ],
                          LAMBDA k : \A h \in 1..(k - 1) :
                              \/ normalized[order[h]] # normalized[order[k]]
                              \/ doc.matches[order[h]].line # doc.matches[order[k]].line)
    IN [ k \in DOMAIN kept |->
           [ source_file |-> source,
             target |-> normalized[order[kept[k]]],
             reference_type |-> doc.matches[order[kept[k]]].ref_type,
             line_number |-> doc.matches[order[kept[k]]].line,
             is_resolved |-> _resolve_target(normalized[order[kept[k]]]) ] ]

\* _evaluate_quality: quality_score
_evaluate_quality(doc, commit_count) ==
    LET two == FInt(2)
        s == FSum(<< FMin(Frac(doc.sections, 5), two),
                     FMin(Frac(doc.paths, 3), two),
                     FMin(Frac(doc.commands, 3), two),
                     FMin(Frac(doc.constraints, 2), two),
                     IF doc.words > 200 THEN FInt(2)
                     ELSE IF doc.words > 50 THEN FInt(1) ELSE FInt(0),
                     IF commit_count >= 5 THEN FInt(2)
                     ELSE IF commit_count >= 3 THEN FInt(1) ELSE FInt(0) >>)
    IN FMin(s, FInt(10))

\* sum(q.quality_score for q in quality.values())
RECURSIVE SumValues(_, _)
SumValues(quality, keys) ==
    IF keys = {} THEN FInt(0)
    ELSE LET k == CHOOSE k \in keys : TRUE
         IN FAdd(quality[k], SumValues(quality, keys \ {k}))

\* The bonus with a target term that does not stop at 3 points.
BonusUnsaturated(refs, quality) ==
    LET ref_bonus ==
            IF refs = << >> THEN FInt(0)
            ELSE LET unique_targets == { refs[i].target : i \in DOMAIN refs }
                     resolved_count ==
                         Cardinality({ i \in DOMAIN refs : refs[i].is_resolved })
                 IN FAdd(Frac(Cardinality(unique_targets), 2),
                         FMul(Frac(resolved_count, Len(refs)), FInt(2)))
        quality_bonus ==
            IF DOMAIN quality = {} THEN FInt(0)
            ELSE FDiv(FDiv(SumValues(quality, DOMAIN quality),
                           FInt(Cardinality(DOMAIN quality))),
                      FInt(2))
    IN FMin(FAdd(ref_bonus, quality_bonus), FInt(10))

\* _calculate_cross_ref_bonus(refs, quality); quality: path -> quality_score
_calculate_cross_ref_bonus(refs, quality) ==
    LET ref_bonus ==
            IF refs = << >> THEN FInt(0)
            ELSE LET unique_targets == { refs[i].target : i \in DOMAIN refs }
                     resolved_count ==
                         Cardinality({ i \in DOMAIN refs : refs[i].is_resolved })
                 IN FAdd(FMin(Frac(Cardinality(unique_targets), 2), FInt(3)),
                         FMul(Frac(resolved_count, Len(refs)), FInt(2)))
        quality_bonus ==
            IF DOMAIN quality = {} THEN FInt(0)
            ELSE FDiv(FDiv(SumValues(quality, DOMAIN quality),
                           FInt(Cardinality(DOMAIN quality))),
                      FInt(2))
    IN FMin(FAdd(ref_bonus, quality_bonus), FInt(10))

\* An exception of the git subprocess that leaves _get_file_commit_count.
CommitCountUncaught(run) ==
    IF run.kind \in { "timeout", "not_started" }
    THEN [ raises |-> TRUE, count |-> 0 ]
    ELSE [ raises |-> FALSE,
           count |-> IF run.kind = "exited" /\ run.returncode = 0 THEN run.lines ELSE 0 ]

\* _get_file_commit_count, on what the git subprocess did (run): the number
\* of lines it printed when it exited with 0 and printed any, else 0; the
\* timeout and the failure to start are caught.
_get_file_commit_count(run) ==
    [ raises |-> FALSE,
      count |-> IF run.kind = "exited" /\ run.returncode = 0 /\ run.lines > 0
                THEN run.lines ELSE 0 ]

\* _scan_cross_references; run: what git does for every instruction file.
\* A file that reads as the empty string is passed over (`if content:`).
_scan_cross_references(run) ==
    LET sources == _find_instruction_files
        read == SelectSeq(sources, LAMBDA f : files[f].size_bytes > 0)
        git == _get_file_commit_count(run)
        references ==
            Flatten([ i \in DOMAIN read |->
                        _extract_references(read[i], files[read[i]]) ])
        quality_scores ==
            [ f \in Range(read) |-> _evaluate_quality(files[f], git.count) ]
    IN [ raised |-> read # << >> /\ git.raises,
         references |-> references,
         source_files_scanned |-> Len(sources),
         quality_scores |-> quality_scores,
         commit_count |-> [ f \in Range(read) |-> git.count ],
         bonus_points |-> _calculate_cross_ref_bonus(references, quality_scores) ]

\* -------------------------------------------------------------------------
\* Maturity calculator
\* -------------------------------------------------------------------------

default_thresholds == [ l \in 3..8 |-> CASE l = 3 -> 15 [] l = 4 -> 12 [] l = 5 -> 10
                                          [] l = 6 -> 8 [] l = 7 -> 6 [] l = 8 -> 5 ]

\* The configured thresholds taken as the whole table.
ThresholdsReplaced(custom) ==
    IF DOMAIN custom = {} THEN default_thresholds ELSE custom

\* thresholds = default_thresholds.copy(); thresholds[level_num] = custom_threshold
Thresholds(custom) ==
    [ l \in DOMAIN default_thresholds \cup DOMAIN custom |->
        IF l \in DOMAIN custom THEN custom[l] ELSE default_thresholds[l] ]

\* thresholds.get(level_num, 5)
ThresholdOf(thresholds, level_num) ==
    IF level_num \in DOMAIN thresholds THEN thresholds[level_num] ELSE 5

\* The loop without its break: a level whose threshold is not met is skipped.
RECURSIVE GateLoopSkipping(_, _, _, _)
GateLoopSkipping(level_scores, thresholds, level_num, current_level) ==
    IF level_num > 8 THEN current_level
    ELSE GateLoopSkipping(level_scores, thresholds, level_num + 1,
                          IF /\ level_num \in DOMAIN level_scores
                             /\ FLe(FInt(ThresholdOf(thresholds, level_num)),
                                    level_scores[level_num].coverage_percent)
                          THEN level_num ELSE current_level)

\* for level_num in range(3, 9): ... else: break
RECURSIVE GateLoop(_, _, _, _)
GateLoop(level_scores, thresholds, level_num, current_level) ==
    IF level_num > 8 THEN current_level
    ELSE IF /\ level_num \in DOMAIN level_scores
            /\ FLe(FInt(ThresholdOf(thresholds, level_num)),
                   level_scores[level_num].coverage_percent)
         THEN GateLoop(level_scores, thresholds, level_num + 1, level_num)
         ELSE current_level

\* The base gate without its substantive_file_count test: a core file of any
\* size among the level 2 matches lets the repository pass.
BaseGateAnyCoreFile(level_scores) ==
    /\ 2 \in DOMAIN level_scores
    /\ \E i \in DOMAIN level_scores[2].matched_files :
           \E core \in CORE_AI_FILES :
               Contains(level_scores[2].matched_files[i].path, core)

\* The two early returns of _calculate_overall_level
BaseGate(level_scores) ==
    /\ 2 \in DOMAIN level_scores
    /\ substantive_file_count(level_scores[2]) # 0
    /\ \E i \in DOMAIN level_scores[2].matched_files :
           \E core \in CORE_AI_FILES :
               Contains(level_scores[2].matched_files[i].path, core)

_calculate_overall_level(level_scores, custom) ==
    IF ~BaseGate(level_scores) THEN 1
    ELSE GateLoop(level_scores, Thresholds(custom), 3, 2)

\* 12.5 in level_contribution and in max_possible
ScoreUnit == <<25, 2>>
MaxUnitRounded == <<12, 1>>
MaxUnit == <<25, 2>>

\* The contribution without the file_count > 0 guard of substantive_ratio:
\* a level matched by directories alone counts in full.
LevelContributionUnguarded(ls, weight) ==
    IF ls.total_patterns > 0
    THEN LET coverage_score == FDiv(ls.coverage_percent, FInt(100))
             substantive_ratio ==
                 IF file_count(ls) > 0
                 THEN Frac(substantive_file_count(ls), file_count(ls))
                 ELSE FInt(1)
         IN FMul(FMul(FMul(coverage_score, substantive_ratio), weight), ScoreUnit)
    ELSE FInt(0)

\* level_contribution of one level in _calculate_overall_score
LevelContribution(ls, weight) ==
    IF ls.total_patterns > 0
    THEN LET coverage_score == FDiv(ls.coverage_percent, FInt(100))
             substantive_ratio ==
                 IF file_count(ls) > 0
                 THEN Frac(substantive_file_count(ls),
                           IF file_count(ls) > 1 THEN file_count(ls) ELSE 1)
                 ELSE FInt(0)
         IN FMul(FMul(FMul(coverage_score, substantive_ratio), weight), ScoreUnit)
    ELSE FInt(0)

_calculate_overall_score(level_scores) ==
    LET total_score ==
            FSum([ l \in DOMAIN level_scores |->
                     LevelContribution(level_scores[l], LEVELS[l].weight) ])
        max_possible ==
            FSum([ l \in DOMAIN level_scores |-> FMul(LEVELS[l].weight, MaxUnit) ])
    IN IF FLt(FInt(0), max_possible)
       THEN FMin(FInt(100), FMul(FDiv(total_score, max_possible), FInt(100)))
       ELSE FInt(0)

\* The bonus added without the cap.
UncappedScore(base_score, bonus_points) == FAdd(base_score, bonus_points)

\* score.overall_score = min(100, base_score + bonus_points)
CappedScore(base_score, bonus_points) ==
    FMin(FInt(100), FAdd(base_score, bonus_points))

\* _generate_recommendations reads level_scores.get(n + 1) of the level n it
\* handles (n in 2..6) and uses it without a None check.
RecommendationsRaise(overall_level, level_scores) ==
    /\ overall_level \in 2..6
    /\ (overall_level + 1) \notin DOMAIN level_scores

\* The looked-for words that a file or directory name holds once in upper case.
TermsIn(name) ==
    CASE name = "ARCHITECTURE" -> { "ARCHITECTURE" }
      [] OTHER -> {}

\* any(any(term in f.path.upper() for term in terms) for f in matched_files)
Mentioned(matched_files, terms) ==
    \E i \in DOMAIN matched_files :
        \E j \in DOMAIN matched_files[i].path :
            TermsIn(matched_files[i].path[j]) \cap terms # {}

\* any(any(d in dir_name for d in names) for dir_name in matched_directories)
DirMentioned(matched_directories, names) ==
    \E i \in DOMAIN matched_directories :
        \E d \in names : Contains(matched_directories[i], d)

\* One recommendation: which text, the category its guard names ("" when the
\* code puts it out unguarded), and the tools the text names.
Rec(id, category) == [ id |-> id, category |-> category, names |-> << >> ]

When(condition, rec) == IF condition THEN << rec >> ELSE << >>

should_skip(config, rec_type) == rec_type \in config.skip_recommendations

in_focus(config, rec_type) ==
    config.focus_areas = {} \/ rec_type \in config.focus_areas

\* format_multi_tool_options(tools, rec_type): the path to suggest, not empty.
format_multi_tool_options(tools, rec_type) == rec_type

\* tools = score.detected_tools if score.detected_tools else ["claude-code"]
ToolsOrDefault(config) ==
    IF config.tools # << >> THEN config.tools ELSE << "claude-code" >>

\* "Detected AI tools: ...", put out by every level when tools is not empty
DetectedToolsLine(tools) ==
    When(tools # << >>, [ id |-> "detected_tools", category |-> "", names |-> tools ])

\* if score.overall_level == 1
RecommendationsLevel1(tools) ==
    DetectedToolsLine(tools)
    \o << Rec("start_here", "") >>
    \o When("github-copilot" \in Range(tools) \/ tools = << >>,
            Rec("copilot_instructions", ""))
    \o When("cursor" \in Range(tools) \/ tools = << >>, Rec("cursorrules", ""))
    \o When("openai-codex" \in Range(tools), Rec("codex_agents", ""))
    \o << Rec("readme_quick_win", "") >>

\* if score.overall_level == 2
RecommendationsLevel2(tools, level_3, config) ==
    LET no_architecture == ~Mentioned(level_3.matched_files, { "ARCHITECTURE" })
        no_api == ~Mentioned(level_3.matched_files, { "API" })
        no_conventions ==
            ~Mentioned(level_3.matched_files, { "CONVENTIONS", "STYLE", "STANDARDS" })
        no_testing == ~Mentioned(level_3.matched_files, { "TESTING" })
        no_patterns == ~Mentioned(level_3.matched_files, { "PATTERNS" })
        missing_critical == no_architecture \/ no_api \/ no_conventions \/ no_testing
        first ==
            DetectedToolsLine(tools)
            \o When(missing_critical /\ ~should_skip(config, "documentation"),
                    Rec("missing_documentation", "documentation"))
            \o When(no_architecture /\ in_focus(config, "architecture"),
                    Rec("architecture", "architecture"))
            \o When(no_conventions /\ in_focus(config, "conventions"),
                    Rec("conventions", "conventions"))
            \o When(no_patterns /\ in_focus(config, "patterns"),
                    Rec("patterns", "patterns"))
            \o When(no_api /\ in_focus(config, "api"), Rec("api", "api"))
            \o When(no_testing /\ in_focus(config, "testing"), Rec("testing", "testing"))
    IN first
       \o When(/\ Len(first) < 7
               /\ in_focus(config, "contributing")
               /\ ~Mentioned(level_3.matched_files, { "CONTRIBUTING" }),
               Rec("contributing", "contributing"))

\* if score.overall_level == 3
RecommendationsLevel3(tools, level_4, config) ==
    DetectedToolsLine(tools)
    \o << Rec("level_up", "") >>
    \o When(/\ format_multi_tool_options(tools, "skills_dir") # ""
            /\ ~should_skip(config, "skills")
            /\ ~DirMentioned(level_4.matched_directories,
                             { << ".claude", "/", "skills" >>, << ".github", "/", "skills" >>,
                               << ".cursor", "/", "skills" >>, << ".codex", "/", "skills" >> }),
            Rec("skills", "skills"))
    \o When(/\ "claude-code" \in Range(tools)
            /\ ~should_skip(config, "hooks")
            /\ ~DirMentioned(level_4.matched_directories, { << ".claude", "/", "hooks" >> }),
            Rec("hooks", "hooks"))
    \o When(/\ "claude-code" \in Range(tools)
            /\ ~should_skip(config, "commands")
            /\ ~DirMentioned(level_4.matched_directories, { << ".claude", "/", "commands" >> }),
            Rec("commands", "commands"))
    \o When(/\ "github-copilot" \in Range(tools)
            /\ ~should_skip(config, "instructions")
            /\ ~DirMentioned(level_4.matched_directories,
                             { << ".github", "/", "instructions" >> }),
            Rec("instructions", "instructions"))
    \o When(/\ "cursor" \in Range(tools)
            /\ ~should_skip(config, "cursor")
            /\ ~DirMentioned(level_4.matched_directories, { << ".cursor", "/", "rules" >> }),
            Rec("cursor", "cursor"))
    \o When(/\ ~should_skip(config, "memory")
            /\ ~Mentioned(level_4.matched_files, { "MEMORY", "LEARNINGS", "DECISIONS" }),
            Rec("memory", "memory"))
    \o When(~should_skip(config, "verification"), Rec("verification", "verification"))
    \o When(/\ ~should_skip(config, "soul")
            /\ ~Mentioned(level_4.matched_files, { "SOUL", "IDENTITY", "PERSONALITY" }),
            Rec("soul", "soul"))

\* _generate_recommendations, for the levels whose handler returns
_generate_recommendations(overall_level, level_scores, config) ==
    LET tools == ToolsOrDefault(config)
    IN CASE overall_level = 1 -> RecommendationsLevel1(tools)
         [] overall_level = 2 -> RecommendationsLevel2(tools, level_scores[3], config)
         [] overall_level = 3 -> RecommendationsLevel3(tools, level_scores[4], config)
         [] OTHER -> << >>

\* RepoScore.has_any_ai_files
has_any_ai_files(sc) ==
    \E l \in DOMAIN sc.level_scores : l >= 2 /\ file_count(sc.level_scores[l]) > 0

\* -------------------------------------------------------------------------
\* Operations
\* -------------------------------------------------------------------------

NoScore == [ outcome |-> "none" ]
NoCategories == [ skip_recommendations |-> {}, focus_areas |-> {} ]
NoScanner == [ score |-> NoScore ]
NoCall == [ call |-> "none" ]
FreshCache == [ p \in {} |-> FALSE ]
\* What `git log --oneline --follow -- <file>` does within its 5 seconds.
GitLogLines == { 0, 3, 5 }
GitRuns == { [ kind |-> "exited", returncode |-> 0, lines |-> n ] : n \in GitLogLines }
FailedRuns ==
    { [ kind |-> "timeout", returncode |-> 0, lines |-> 0 ],
      [ kind |-> "not_started", returncode |-> 0, lines |-> 0 ],
      [ kind |-> "exited", returncode |-> 128, lines |-> 0 ],
      [ kind |-> "exited", returncode |-> 1, lines |-> 3 ],
      [ kind |-> "exited", returncode |-> 0, lines |-> 0 ] }

AllDirectoryPatterns ==
    UNION { Range(LEVELS[l].directory_patterns) : l \in DOMAIN LEVELS }

Init ==
    /\ files = [ p \in FilePaths |-> Absent ]
    /\ dirs = {}
    /\ repo_path = RepoRoot
    /\ root_kind = "dir"
    /\ yaml = NoOverride
    /\ yaml_categories = NoCategories
    /\ dir_cache = FreshCache
    /\ score = NoScore
    /\ parked = NoScanner
    /\ out = NoCall

\* The environment writes a file (its parent directories come with it).
WriteFile(p, doc) ==
    /\ root_kind = "dir"
    /\ files[p] # doc
    /\ files' = [ files EXCEPT ![p] = doc ]
    /\ score' = NoScore
    /\ UNCHANGED << dirs, repo_path, root_kind, yaml, dir_cache, yaml_categories, parked, out >>

RemoveFile(p) ==
    /\ root_kind = "dir"
    /\ files[p] # Absent
    /\ files' = [ files EXCEPT ![p] = Absent ]
    /\ score' = NoScore
    /\ UNCHANGED << dirs, repo_path, root_kind, yaml, dir_cache, yaml_categories, parked, out >>

MakeDir(d) ==
    /\ root_kind = "dir"
    /\ d \notin dirs
    /\ dirs' = dirs \cup {d}
    /\ score' = NoScore
    /\ UNCHANGED << files, repo_path, root_kind, yaml, dir_cache, yaml_categories, parked, out >>

RemoveDir(d) ==
    /\ root_kind = "dir"
    /\ d \in dirs
    /\ dirs' = dirs \ {d}
    /\ score' = NoScore
    /\ UNCHANGED << files, repo_path, root_kind, yaml, dir_cache, yaml_categories, parked, out >>

\* The environment rewrites the thresholds of .ai-proficiency.yaml.
WriteConfig(t) ==
    /\ root_kind = "dir"
    /\ yaml # t
    /\ yaml' = t
    /\ score' = NoScore
    /\ UNCHANGED << files, dirs, repo_path, root_kind, dir_cache, yaml_categories, parked, out >>

\* RepoScanner(repo_path): a new scanner for the same tree.
NewScanner ==
    /\ dir_cache # FreshCache
    /\ dir_cache' = FreshCache
    /\ score' = NoScore
    /\ UNCHANGED << files, dirs, repo_path, root_kind, yaml, yaml_categories, parked, out >>

\* detect_ai_tools(repo_path): the tools whose instruction file is in the tree.
detect_ai_tools ==
    (IF IsFile(ClaudeMd) THEN << "claude-code" >> ELSE << >>)
    \o (IF IsFile(CopilotMd) THEN << "github-copilot" >> ELSE << >>)

\* load_repo_config(repo_path): the detected tools and the sections of the
\* config file, thresholds as level -> percent.
load_repo_config ==
    [ tools |-> detect_ai_tools,
      thresholds |-> yaml,
      skip_recommendations |-> yaml_categories.skip_recommendations,
      focus_areas |-> yaml_categories.focus_areas ]

\* The rest of scan() once the levels are scanned: the cross-reference
\* result, the overall level and score, and the recommendations.
RepoScoreOf(level_scores, config, cross_references) ==
    LET overall_level == _calculate_overall_level(level_scores, config.thresholds)
        base_score == _calculate_overall_score(level_scores)
        overall_score == CappedScore(base_score, cross_references.bonus_points)
    IN [ outcome |-> IF cross_references.raised
                        \/ RecommendationsRaise(overall_level, level_scores)
                     THEN "raised" ELSE "returned",
         level_scores |-> level_scores,
         cross_references |-> cross_references,
         detected_tools |-> config.tools,
         thresholds |-> config.thresholds,
         recommendations |->
             IF RecommendationsRaise(overall_level, level_scores) THEN << >>
             ELSE _generate_recommendations(overall_level, level_scores, config),
         overall_level |-> overall_level,
         base_score |-> base_score,
         overall_score |-> overall_score ]

\* RepoScanner.scan(): the RepoScore it builds of a tree that stays as it is
\* while the scan runs. cache: the scanner's _dir_cache; run: what git does
\* for every instruction file.
scan(cache, run) ==
    RepoScoreOf([ l \in DOMAIN LEVELS |-> _scan_level(l, LEVELS[l], cache, {}) ],
                load_repo_config,
                _scan_cross_references(run))

\* A scan of the tree as it stands; `score` holds its RepoScore until the
\* tree, the config file or the scanner changes.
Scan(run) ==
    /\ score = NoScore
    /\ score' = scan(dir_cache, run)
    /\ dir_cache' = [ p \in AllDirectoryPatterns |-> _directory_exists(p, dir_cache) ]
    /\ UNCHANGED << files, dirs, repo_path, root_kind, yaml, yaml_categories, parked, out >>

Next ==
    \/ \E p \in MainFiles, doc \in Docs : WriteFile(p, doc)
    \/ \E p \in MainFiles : RemoveFile(p)
    \/ \E d \in DirPaths : MakeDir(d)
    \/ \E d \in DirPaths : RemoveDir(d)
    \/ \E t \in ThresholdConfigs : WriteConfig(t)
    \/ NewScanner
    \/ \E run \in GitRuns : Scan(run)

Spec == Init /\ [][Next]_vars

\* -------------------------------------------------------------------------
\* Scan roots that are not directories
\* -------------------------------------------------------------------------

RootKinds == { "dir", "file", "missing" }

\* The files the smaller specifications write and remove.
SmallFiles == { ClaudeMd, CopilotMd, ArchitectureMd }

\* scan_multiple_repos([repo_path]): one scan on a scanner of its own for
\* each path that os.path.isdir() accepts; the others are passed over.
scan_multiple_repos(run) ==
    IF root_kind = "dir" THEN << scan(FreshCache, run) >> ELSE << >>

\* The caller of scan_multiple_repos keeps the one score, or has none.
ScanMultipleRepos(run) ==
    /\ score = NoScore
    /\ score' = IF scan_multiple_repos(run) = << >>
                THEN [ outcome |-> "dropped" ]
                ELSE scan_multiple_repos(run)[1]
    /\ UNCHANGED << files, dirs, repo_path, root_kind, yaml, dir_cache, yaml_categories, parked, out >>

InitRoots ==
    /\ files = [ p \in FilePaths |-> Absent ]
    /\ dirs = {}
    /\ repo_path = RepoRoot
    /\ root_kind \in RootKinds
    /\ yaml = NoOverride
    /\ yaml_categories = NoCategories
    /\ dir_cache = FreshCache
    /\ score = NoScore
    /\ parked = NoScanner
    /\ out = NoCall

NextRoots ==
    \/ \E p \in SmallFiles, doc \in Docs : WriteFile(p, doc)
    \/ \E p \in SmallFiles : RemoveFile(p)
    \/ \E d \in DirPaths : MakeDir(d)
    \/ \E d \in DirPaths : RemoveDir(d)
    \/ NewScanner
    \/ \E run \in GitRuns : Scan(run)
    \/ \E run \in GitRuns : ScanMultipleRepos(run)

SpecRoots == InitRoots /\ [][NextRoots]_vars

\* -------------------------------------------------------------------------
\* Trees with files below excluded directories
\* -------------------------------------------------------------------------

NextExcluded ==
    \/ \E f \in ExcludedDirFiles \cup { SkillMd, CopilotMd }, doc \in Docs : WriteFile(f, doc)
    \/ \E f \in ExcludedDirFiles \cup { SkillMd, CopilotMd } : RemoveFile(f)
    \/ NewScanner
    \/ \E run \in GitRuns : Scan(run)

SpecExcluded == Init /\ [][NextExcluded]_vars

\* -------------------------------------------------------------------------
\* An instruction file that links to ARCHITECTURE.md
\* -------------------------------------------------------------------------

NextLinks ==
    \/ \E doc \in { LinkDoc, ProseDoc } : WriteFile(ClaudeMd, doc)
    \/ \E f \in LinkTargetFiles : WriteFile(f, StubDoc)
    \/ \E f \in LinkTargetFiles \cup { ClaudeMd } : RemoveFile(f)
    \/ NewScanner
    \/ \E run \in GitRuns : Scan(run)

SpecLinks == Init /\ [][NextLinks]_vars

\* -------------------------------------------------------------------------
\* A second scan of a tree that has not changed
\* -------------------------------------------------------------------------

\* git answers as it did in the scan before: the history has not changed.
SameHistory(run) ==
    \A f \in DOMAIN score.cross_references.commit_count :
        score.cross_references.commit_count[f] = _get_file_commit_count(run).count

\* scanner.scan() once more on the scanner that made the last scan.
Rescan(run) ==
    /\ score.outcome = "returned"
    /\ SameHistory(run)
    /\ score' = scan(dir_cache, run)
    /\ dir_cache' = [ p \in AllDirectoryPatterns |-> _directory_exists(p, dir_cache) ]
    /\ UNCHANGED << files, dirs, repo_path, root_kind, yaml, yaml_categories, parked, out >>

\* RepoScanner(repo_path).scan(): the second scan on a scanner of its own.
RescanFresh(run) ==
    /\ score.outcome = "returned"
    /\ SameHistory(run)
    /\ score' = scan(FreshCache, run)
    /\ dir_cache' = [ p \in AllDirectoryPatterns |-> _directory_exists(p, FreshCache) ]
    /\ UNCHANGED << files, dirs, repo_path, root_kind, yaml, yaml_categories, parked, out >>

NextRescan ==
    \/ \E f \in SmallFiles, doc \in Docs : WriteFile(f, doc)
    \/ \E f \in SmallFiles : RemoveFile(f)
    \/ \E d \in DirPaths : MakeDir(d)
    \/ \E d \in DirPaths : RemoveDir(d)
    \/ NewScanner
    \/ \E run \in GitRuns : Scan(run)
    \/ \E run \in GitRuns : Rescan(run)
    \/ \E run \in GitRuns : RescanFresh(run)

SpecRescan == Init /\ [][NextRescan]_vars

\* -------------------------------------------------------------------------
\* Recommendations under skip_recommendations and focus_areas
\* -------------------------------------------------------------------------

CategoryConfigs ==
    { NoCategories,
      [ skip_recommendations |-> { "architecture" }, focus_areas |-> {} ],
      [ skip_recommendations |-> { "documentation", "hooks" }, focus_areas |-> {} ],
      [ skip_recommendations |-> {}, focus_areas |-> { "testing" } ] }

\* The environment rewrites skip_recommendations and focus_areas of
\* .ai-proficiency.yaml.
WriteCategories(c) ==
    /\ root_kind = "dir"
    /\ yaml_categories # c
    /\ yaml_categories' = c
    /\ score' = NoScore
    /\ UNCHANGED << files, dirs, repo_path, root_kind, yaml, dir_cache, parked, out >>

NextRecs ==
    \/ \E f \in { CopilotMd, ArchitectureMd, SkillMd }, doc \in Docs : WriteFile(f, doc)
    \/ \E f \in { CopilotMd, ArchitectureMd, SkillMd } : RemoveFile(f)
    \/ \E c \in CategoryConfigs : WriteCategories(c)
    \/ NewScanner
    \/ \E run \in GitRuns : Scan(run)

SpecRecs == Init /\ [][NextRecs]_vars

\* -------------------------------------------------------------------------
\* Instruction files with many links
\* -------------------------------------------------------------------------

NextBonus ==
    \/ \E f \in { ClaudeMd, CopilotMd }, doc \in BonusDocs : WriteFile(f, doc)
    \/ WriteFile(ArchitectureMd, StubDoc)
    \/ \E f \in { ClaudeMd, CopilotMd, ArchitectureMd } : RemoveFile(f)
    \/ NewScanner
    \/ \E run \in GitRuns : Scan(run)

SpecBonus == Init /\ [][NextBonus]_vars

\* -------------------------------------------------------------------------
\* An instruction file of headers, mentions and words
\* -------------------------------------------------------------------------

NextQuality ==
    \/ \E doc \in QualityDocs : WriteFile(ClaudeMd, doc)
    \/ RemoveFile(ClaudeMd)
    \/ NewScanner
    \/ \E run \in GitRuns : Scan(run)

SpecQuality == Init /\ [][NextQuality]_vars

\* -------------------------------------------------------------------------
\* Instruction files that name one file several times
\* -------------------------------------------------------------------------

NextDedupe ==
    \/ \E f \in { ClaudeMd, CopilotMd }, doc \in DedupeDocs : WriteFile(f, doc)
    \/ WriteFile(ArchitectureMd, StubDoc)
    \/ \E f \in { ClaudeMd, CopilotMd, ArchitectureMd } : RemoveFile(f)
    \/ NewScanner
    \/ \E run \in GitRuns : Scan(run)

SpecDedupe == Init /\ [][NextDedupe]_vars

\* -------------------------------------------------------------------------
\* An instruction file that names dot-directories and a parent path
\* -------------------------------------------------------------------------

NextDotted ==
    \/ \E doc \in DottedDocs : WriteFile(ClaudeMd, doc)
    \/ \E f \in { CopilotMd, SkillMd, ArchitectureMd } : WriteFile(f, StubDoc)
    \/ \E f \in { ClaudeMd, CopilotMd, SkillMd, ArchitectureMd } : RemoveFile(f)
    \/ NewScanner
    \/ \E run \in GitRuns : Scan(run)

SpecDotted == Init /\ [][NextDotted]_vars

\* -------------------------------------------------------------------------
\* The same trees below directories named like excluded ones
\* -------------------------------------------------------------------------

\* Where the repository is checked out: /home/dev/repo, /work/build/repo or
\* /home/env/repo.
RepoRoots == { RepoRoot, << "work", "build", "repo" >>, << "home", "env", "repo" >> }

\* RepoScanner(repo_path) for a checkout at any of these places.
InitPlaced ==
    /\ files = [ p \in FilePaths |-> Absent ]
    /\ dirs = {}
    /\ repo_path \in RepoRoots
    /\ root_kind = "dir"
    /\ yaml = NoOverride
    /\ yaml_categories = NoCategories
    /\ dir_cache = FreshCache
    /\ score = NoScore
    /\ parked = NoScanner
    /\ out = NoCall

NextPlaced ==
    \/ \E f \in { CopilotMd, SkillMd, ReviewerAgentMd }, doc \in Docs : WriteFile(f, doc)
    \/ \E f \in { CopilotMd, SkillMd, ReviewerAgentMd } : RemoveFile(f)
    \/ NewScanner
    \/ \E run \in GitRuns : Scan(run)

SpecPlaced == InitPlaced /\ [][NextPlaced]_vars

\* -------------------------------------------------------------------------
\* Scans during which git fails
\* -------------------------------------------------------------------------

NextGit ==
    \/ \E f \in SmallFiles, doc \in Docs : WriteFile(f, doc)
    \/ \E f \in SmallFiles : RemoveFile(f)
    \/ \E d \in DirPaths : MakeDir(d)
    \/ \E d \in DirPaths : RemoveDir(d)
    \/ NewScanner
    \/ \E run \in FailedRuns : Scan(run)

SpecGit == Init /\ [][NextGit]_vars

\* -------------------------------------------------------------------------
\* scan() step by step, next to a process that removes files
\* -------------------------------------------------------------------------

Scanning == score.outcome = "scanning"

\* scan() up to the level loop: the configuration is loaded, no level yet.
BeginScan ==
    /\ score = NoScore
    /\ score' = [ outcome |-> "scanning",
                  config |-> load_repo_config,
                  level_scores |-> << >> ]
    /\ UNCHANGED << files, dirs, repo_path, root_kind, yaml, dir_cache, yaml_categories, parked, out >>

\* The files that exactly one file pattern of level k discovers: the stat()
\* of its FileMatch is the only later use of such a file within the level.
DiscoveredOnce(k) ==
    { f \in FilePaths :
        Cardinality({ i \in DOMAIN LEVELS[k].file_patterns :
                        f \in Range(_find_matches(LEVELS[k].file_patterns[i])) }) = 1 }

\* One turn of the level loop. gone: files another process removes after
\* _find_matches has returned them and before _create_file_match stats them.
ScanLevel(gone) ==
    /\ Scanning
    /\ Len(score.level_scores) < Len(LEVELS)
    /\ gone \subseteq DiscoveredOnce(Len(score.level_scores) + 1)
    /\ LET k == Len(score.level_scores) + 1
       IN /\ score' = [ score EXCEPT !.level_scores =
                          Append(@, _scan_level(k, LEVELS[k], dir_cache, gone)) ]
          /\ dir_cache' = [ pat \in DOMAIN dir_cache \cup Range(LEVELS[k].directory_patterns) |->
                              _directory_exists(pat, dir_cache) ]
    /\ files' = [ f \in FilePaths |-> IF f \in gone THEN Absent ELSE files[f] ]
    /\ UNCHANGED << dirs, repo_path, root_kind, yaml, yaml_categories, parked, out >>

\* scan() after the level loop.
FinishScan(run) ==
    /\ Scanning
    /\ Len(score.level_scores) = Len(LEVELS)
    /\ score' = RepoScoreOf(score.level_scores, score.config,
                            _scan_cross_references(run))
    /\ UNCHANGED << files, dirs, repo_path, root_kind, yaml, dir_cache, yaml_categories, parked, out >>

NextRace ==
    \/ ~Scanning /\ \E f \in SmallFiles, doc \in Docs : WriteFile(f, doc)
    \/ ~Scanning /\ \E f \in SmallFiles : RemoveFile(f)
    \/ ~Scanning /\ \E d \in DirPaths : MakeDir(d)
    \/ ~Scanning /\ \E d \in DirPaths : RemoveDir(d)
    \/ ~Scanning /\ NewScanner
    \/ BeginScan
    \/ \E gone \in SUBSET SmallFiles : ScanLevel(gone)
    \/ \E run \in GitRuns : FinishScan(run)

SpecRace == Init /\ [][NextRace]_vars

\* -------------------------------------------------------------------------
\* Two scanners, each on a repository of its own, taking turns
\* -------------------------------------------------------------------------

OtherRoot == << "home", "dev", "other" >>

ParallelTrees ==
    { [ files |-> [ f \in FilePaths |-> IF f = ClaudeMd THEN ProseDoc ELSE Absent ],
        dirs |-> { AgentsDir },
        yaml |-> NoOverride ],
      [ files |-> [ f \in FilePaths |-> IF f = CopilotMd THEN StubDoc ELSE Absent ],
        dirs |-> {},
        yaml |-> [ l \in {3} |-> 14 ] ] }

\* git finds no commit for any file of either repository.
NoCommits == [ kind |-> "exited", returncode |-> 0, lines |-> 0 ]

\* One cache for the whole process: the scanner that resumes finds the
\* entries the running scanner has made.
SharedCache(running, resumed) == running

\* self._dir_cache is a field of the instance: the scanner that resumes
\* finds its own cache, whatever the running scanner has put into its own.
CacheAfterSwitch(running, resumed) == resumed

\* The scheduler stops the running scanner and resumes the other one.
Switch ==
    /\ parked # NoScanner
    /\ parked' = [ files |-> files, dirs |-> dirs, repo_path |-> repo_path,
                   yaml |-> yaml, dir_cache |-> dir_cache, score |-> score ]
    /\ files' = parked.files
    /\ dirs' = parked.dirs
    /\ repo_path' = parked.repo_path
    /\ yaml' = parked.yaml
    /\ dir_cache' = CacheAfterSwitch(dir_cache, parked.dir_cache)
    /\ score' = parked.score
    /\ UNCHANGED << root_kind, yaml_categories, out >>

InitParallel ==
    \E mine \in ParallelTrees, other \in ParallelTrees :
        /\ files = mine.files
        /\ dirs = mine.dirs
        /\ repo_path = RepoRoot
        /\ root_kind = "dir"
        /\ yaml = mine.yaml
        /\ yaml_categories = NoCategories
        /\ dir_cache = FreshCache
        /\ score = NoScore
        /\ parked = [ files |-> other.files, dirs |-> other.dirs, repo_path |-> OtherRoot,
                      yaml |-> other.yaml, dir_cache |-> FreshCache, score |-> NoScore ]
        /\ out = NoCall

NextParallel ==
    \/ BeginScan
    \/ ScanLevel({})
    \/ FinishScan(NoCommits)
    \/ Switch

SpecParallel == InitParallel /\ [][NextParallel]_vars

\* -------------------------------------------------------------------------
\* The reporters of several repositories
\* -------------------------------------------------------------------------

\* Most RepoScores handed to one report_multiple call.
MaxRepos == 3

\* LevelScores of a rule table of eight levels in which the levels up to
\* `top` are matched in full, by a substantive core file, and the levels
\* above it not at all.
LevelScoresMetUpTo(top) ==
    [ l \in 1..8 |->
        [ level |-> l,
          total_patterns |-> 1,
          matched_files |->
              IF l <= top
              THEN << [ path |-> CopilotMd, pattern |-> CopilotMd, level |-> l,
                        size_bytes |-> MaxSize, last_modified |-> "mtime" ] >>
              ELSE << >>,
          matched_directories |-> << >>,
          coverage_percent |-> IF l <= top THEN FInt(100) ELSE FInt(0) ] ]

\* The RepoScores handed to the reporters, as far as report_multiple reads
\* them: overall_level is what _calculate_overall_level returns.
ReportedScores ==
    { [ overall_level |-> _calculate_overall_level(LevelScoresMetUpTo(top), NoOverride),
        overall_score |-> Frac(25 * top, 2) ] :
      top \in 1..8 }

ScoreLists == UNION { [ 1..n -> ReportedScores ] : n \in 0..MaxRepos }

\* sum(1 for s in scores if s.overall_level == level_num), for range(5)
CountPerLevel(scores) ==
    [ level_num \in 0..4 |->
        Cardinality({ i \in DOMAIN scores : scores[i].overall_level = level_num }) ]

\* TerminalReporter.report_multiple: level_counts has the keys 0..4, and
\* level_counts[score.overall_level] += 1 raises KeyError for any other
\* level, before the distribution is printed.
TerminalReportMultiple(scores) ==
    IF scores = << >>
    THEN [ raises |-> FALSE, printed |-> FALSE, distribution |-> CountPerLevel(scores) ]
    ELSE IF \E i \in DOMAIN scores : scores[i].overall_level \notin 0..4
         THEN [ raises |-> TRUE, printed |-> FALSE,
                distribution |-> CountPerLevel(<< >>) ]
         ELSE [ raises |-> FALSE, printed |-> TRUE,
                distribution |-> CountPerLevel(scores) ]

\* MarkdownReporter.report_multiple: the distribution table for range(5),
\* then a row for each repository, whose status is taken from a list of
\* five names: IndexError for a level above 4.
MarkdownReportMultiple(scores) ==
    [ raises |-> \E i \in DOMAIN scores : scores[i].overall_level > 4,
      printed |-> TRUE,
      distribution |-> CountPerLevel(scores) ]

\* JsonReporter.report_multiple: total_repos and the distribution level_0 to
\* level_4.
JsonReportMultiple(scores) ==
    [ raises |-> FALSE,
      printed |-> TRUE,
      total_repos |-> Len(scores),
      distribution |-> CountPerLevel(scores) ]

\* reporter.report_multiple(scores), by each of the three reporters; a run
\* of the command reports once.
ReportMultiple(scores) ==
    /\ out = NoCall
    /\ out' = [ call |-> "report_multiple",
                scores |-> scores,
                terminal |-> TerminalReportMultiple(scores),
                markdown |-> MarkdownReportMultiple(scores),
                json |-> JsonReportMultiple(scores) ]
    /\ UNCHANGED << files, dirs, repo_path, root_kind, yaml, yaml_categories,
                    dir_cache, score, parked >>

NextReports == \E scores \in ScoreLists : ReportMultiple(scores)

SpecReports == Init /\ [][NextReports]_vars

\* -------------------------------------------------------------------------
\* Scanning a GitHub repository without cloning it
\* -------------------------------------------------------------------------

\* Blobs of the remote repository that `gh api .../git/trees` may list.
CommandMd == << ".claude", "/", "commands", "/", "deploy", ".md" >>
RemotePaths ==
    { ClaudeMd, CopilotMd, SkillMd, CommandMd, ArchitectureMd, << "README", ".md" >>,
      << "src", "/", "main", ".py" >> }

\* repo_full_name.split("/"): "owner/repo", and a name without an owner.
RepoNames == { << "owner", "repo" >>, << "repo" >> }

\* tempfile.mkdtemp(prefix="ai-prof-repo-")
TempDir == << "tmp", "ai-prof-repo-" >>

always_check ==
    { ClaudeMd, << "AGENTS", ".md" >>, << ".cursorrules" >>, << "CODEX", ".md" >>,
      CopilotMd, << ".copilot-instructions", ".md" >>,
      << ".ai-proficiency", ".yaml" >>, << ".ai-proficiency", ".yml" >> }

skill_patterns ==
    { << d, "/", "skills", "/" >> : d \in { ".claude", ".github", ".copilot", ".cursor",
                                            ".codex" } }
    \cup { << "skills", "/" >> }

command_patterns ==
    { << ".claude", "/", "commands", "/" >>, << ".github", "/", "commands", "/" >> }

\* path.startswith(prefix), path.endswith(suffix)
StartsWith(path, prefix) ==
    Len(prefix) <= Len(path) /\ SubSeq(path, 1, Len(prefix)) = prefix

EndsWith(path, suffix) ==
    Len(suffix) <= Len(path)
    /\ SubSeq(path, Len(path) - Len(suffix) + 1, Len(path)) = suffix

\* The tests of the loop over the tree in get_relevant_files, with the
\* patterns collected from the levels.
IsRelevant(path, patterns_to_check) ==
    \/ path \in always_check
    \/ \E skill_pattern \in skill_patterns :
           Contains(path, skill_pattern) /\ EndsWith(path, << "SKILL", ".md" >>)
    \/ \E cmd_pattern \in command_patterns :
           StartsWith(path, cmd_pattern) /\ EndsWith(path, << ".md" >>)
    \/ \E pattern \in patterns_to_check : pattern = path \/ EndsWith(path, pattern)

\* get_relevant_files(tree). `for level in LEVELS` goes over the keys of the
\* dict, which are ints, and level.file_patterns raises AttributeError for
\* the first of them, before the tree is looked at; with no level at all
\* nothing is collected and the loop over the tree runs.
get_relevant_files(tree) ==
    IF DOMAIN LEVELS # {}
    THEN [ raises |-> TRUE, paths |-> {} ]
    ELSE [ raises |-> FALSE, paths |-> { path \in tree : IsRelevant(path, {}) } ]

\* download_repo_files, for the tree that get_repo_tree returned ([] when
\* the gh call failed) and with every file fetched: False without a tree
\* and on any exception, True otherwise.
download_repo_files(tree) ==
    IF tree = {} THEN [ success |-> FALSE, written |-> {} ]
    ELSE IF get_relevant_files(tree).raises THEN [ success |-> FALSE, written |-> {} ]
         ELSE [ success |-> TRUE, written |-> get_relevant_files(tree).paths ]

\* scan_github_repo(repo_full_name), with gh installed and authenticated:
\* what it returns and what is left of the temporary directory it made.
scan_github_repo(repo_full_name, tree) ==
    IF Len(repo_full_name) # 2
    THEN [ returned |-> "None", temp_dir_made |-> FALSE, temp_dir_exists |-> FALSE,
           written |-> {} ]
    ELSE IF ~download_repo_files(tree).success
         THEN [ returned |-> "None", temp_dir_made |-> TRUE, temp_dir_exists |-> FALSE,
                written |-> {} ]
         ELSE [ returned |-> TempDir, temp_dir_made |-> TRUE, temp_dir_exists |-> TRUE,
                written |-> download_repo_files(tree).written
                            \cup { << ".git", "/", "config" >>, << ".git", "/", "HEAD" >> } ]

\* One call of scan_github_repo in a run of the command.
ScanGithubRepo(repo_full_name, tree) ==
    /\ out = NoCall
    /\ out' = [ call |-> "scan_github_repo",
                repo_full_name |-> repo_full_name,
                tree |-> tree,
                result |-> scan_github_repo(repo_full_name, tree) ]
    /\ UNCHANGED << files, dirs, repo_path, root_kind, yaml, yaml_categories,
                    dir_cache, score, parked >>

NextGithub ==
    \E repo_full_name \in RepoNames, tree \in SUBSET RemotePaths :
        ScanGithubRepo(repo_full_name, tree)

SpecGithub == Init /\ [][NextGithub]_vars

\* -------------------------------------------------------------------------
\* Properties
\* -------------------------------------------------------------------------

Scanned == score.outcome # "none"

Coverage(k) == score.level_scores[k].coverage_percent

DefaultThreshold(k) ==
    CASE k = 3 -> 15 [] k = 4 -> 12 [] k = 5 -> 10 [] k = 6 -> 8 [] k = 7 -> 6 [] k = 8 -> 5

\* The threshold a scan had to use for level k: the configured one if the
\* repository's config names k, the default otherwise.
ThresholdInForce(k) ==
    IF k \in DOMAIN score.thresholds THEN score.thresholds[k] ELSE DefaultThreshold(k)

\* Level k has a LevelScore whose coverage reaches `threshold` percent.
Meets(k, threshold) ==
    k \in DOMAIN score.level_scores /\ FLe(FInt(threshold), Coverage(k))

NoFiles == \A f \in FilePaths : files[f] = Absent

\* C1: once the base gate has passed, overall_level is the largest L in 2..8
\* such that every level 3..L meets its threshold; the level after L does
\* not meet its own (no skipping over an unmet level), and L is a level of
\* the rule table.
GatingStopsAtFirstUnmetLevel ==
    Scanned /\ BaseGate(score.level_scores) =>
        LET L == score.overall_level
        IN /\ L \in 2..8
           /\ \A k \in 3..L : Meets(k, ThresholdInForce(k))
           /\ L < 8 => ~Meets(L + 1, ThresholdInForce(L + 1))
           /\ L \in DOMAIN LEVELS

\* A scan that passed the base gate, missed level 3 and would have met level 4.
GatingStoppedBelowMetLevel ==
    /\ Scanned
    /\ BaseGate(score.level_scores)
    /\ ~Meets(3, ThresholdInForce(3))
    /\ Meets(4, ThresholdInForce(4))
    /\ score.overall_level = 2

\* C3: a scan of a repository without any file gives overall_level 1 and
\* overall_score exactly 0: base score 0 and bonus 0.
EmptyRepositoryScoresZero ==
    Scanned /\ NoFiles =>
        /\ score.overall_level = 1
        /\ score.base_score = FInt(0)
        /\ score.cross_references.bonus_points = FInt(0)
        /\ score.overall_score = FInt(0)

\* A scan of a tree of directories only, one of them matching a pattern.
EmptyRepositoryWithDirectoryScanned ==
    /\ Scanned
    /\ NoFiles
    /\ AgentsDir \in dirs
    /\ FLt(FInt(0), Coverage(3))

CoreFileMatch(file_match) ==
    \E core \in CORE_AI_FILES : Contains(file_match.path, core)

\* C2: the base gate passes (overall_level >= 2) only if some matched core
\* instruction file is itself substantive (more than 100 bytes); with no
\* substantive core file the level is 1 whatever else the tree holds.
BaseGateNeedsSubstantiveCoreFile ==
    Scanned /\ score.overall_level >= 2 =>
        \E l \in DOMAIN score.level_scores :
            \E i \in DOMAIN score.level_scores[l].matched_files :
                /\ CoreFileMatch(score.level_scores[l].matched_files[i])
                /\ score.level_scores[l].matched_files[i].size_bytes > SubstantiveBytes

PrimaryInstructionFiles == { ClaudeMd, << ".cursorrules" >>, CopilotMd }

\* C4: a scan of a repository holding a primary instruction file of more
\* than 100 bytes gives overall_level >= 2 and has_any_ai_files true.
SubstantivePrimaryFileReachesLevel2 ==
    /\ Scanned
    /\ \E f \in PrimaryInstructionFiles \cap FilePaths :
           files[f].size_bytes > SubstantiveBytes
    => score.overall_level >= 2 /\ has_any_ai_files(score)

\* C5: a configured threshold replaces the threshold of the level it names
\* and of no other: every other level the gate passed met its default, the
\* level the gate stopped at missed its default, and the named level is
\* compared with the configured value.
OverrideReplacesOnlyNamedLevel ==
    Scanned /\ BaseGate(score.level_scores) /\ DOMAIN score.thresholds # {} =>
        LET L == score.overall_level
        IN \A k \in 3..8 :
               LET threshold == IF k \in DOMAIN score.thresholds
                                THEN score.thresholds[k] ELSE DefaultThreshold(k)
               IN /\ k <= L => Meets(k, threshold)
                  /\ k = L + 1 => ~Meets(k, threshold)

\* A scan under an override of level 4 that stopped at level 3's default:
\* level 3 has coverage, more than the fallback 5 and less than its default.
OverrideLeftOtherLevelAtDefault ==
    /\ Scanned
    /\ BaseGate(score.level_scores)
    /\ DOMAIN score.thresholds = {4}
    /\ Meets(3, 5)
    /\ ~Meets(3, DefaultThreshold(3))
    /\ score.overall_level = 2

\* C6: overall_score lies in [0, 100]: the base score does, and the total
\* with the bonus is cut back to 100.
OverallScoreWithinBounds ==
    Scanned =>
        /\ FLe(FInt(0), score.base_score) /\ FLe(score.base_score, FInt(100))
        /\ FLe(FInt(0), score.overall_score) /\ FLe(score.overall_score, FInt(100))
        /\ score.overall_score =
               FMin(FInt(100), FAdd(score.base_score, score.cross_references.bonus_points))

\* A scan whose base score and bonus add up to more than 100.
BonusCutBackTo100 ==
    /\ Scanned
    /\ FLt(FInt(100), FAdd(score.base_score, score.cross_references.bonus_points))
    /\ score.overall_score = FInt(100)

\* The patterns a level declares, and those of them a LevelScore records a
\* match for (a matched file or a matched directory).
DeclaredPatterns(l) ==
    Range(LEVELS[l].file_patterns) \cup Range(LEVELS[l].directory_patterns)

SatisfiedPatterns(l) ==
    { p \in DeclaredPatterns(l) :
        \/ \E i \in DOMAIN score.level_scores[l].matched_files :
               score.level_scores[l].matched_files[i].pattern = p
        \/ \E j \in DOMAIN score.level_scores[l].matched_directories :
               score.level_scores[l].matched_directories[j] = p }

\* C7: for every level, total_patterns is the number of distinct declared
\* patterns and coverage_percent is the number of distinct patterns with a
\* match over total_patterns, times 100 (0 for a level without patterns):
\* a value in [0, 100].
CoverageIsSatisfiedOverDeclared ==
    /\ CoveragePercent({}, 0) = FInt(0)
    /\ Scanned =>
           \A l \in DOMAIN score.level_scores :
               /\ score.level_scores[l].total_patterns = Cardinality(DeclaredPatterns(l))
               /\ FMul(Coverage(l), FInt(Cardinality(DeclaredPatterns(l))))
                      = FInt(100 * Cardinality(SatisfiedPatterns(l)))
               /\ FLe(FInt(0), Coverage(l)) /\ FLe(Coverage(l), FInt(100))

\* A scan in which one pattern of a level is matched by more files than one
\* and another pattern of the level by none.
PatternMatchedByTwoFiles ==
    /\ Scanned
    /\ \E l \in DOMAIN score.level_scores :
           /\ SatisfiedPatterns(l) # DeclaredPatterns(l)
           /\ \E i, j \in DOMAIN score.level_scores[l].matched_files :
                  /\ i # j
                  /\ score.level_scores[l].matched_files[i].pattern
                         = score.level_scores[l].matched_files[j].pattern

\* C8: coverage is monotone in the set of satisfied patterns: a tree that
\* satisfies only part of the patterns this scan found satisfied gets a
\* coverage_percent no higher than this scan's.
CoverageMonotone ==
    Scanned =>
        \A l \in DOMAIN score.level_scores :
            \A A \in SUBSET SatisfiedPatterns(l) :
                FLe(CoveragePercent(A, score.level_scores[l].total_patterns), Coverage(l))

\* A scan of a level with several patterns satisfied and one not.
SeveralPatternsSatisfied ==
    /\ Scanned
    /\ \E l \in DOMAIN score.level_scores :
           /\ Cardinality(SatisfiedPatterns(l)) >= 2
           /\ SatisfiedPatterns(l) # DeclaredPatterns(l)

\* coverage_i / 100 * substantive_i / max(file_count_i, 1) * weight_i
WeightedTerm(l) ==
    LET ls == score.level_scores[l]
        n == IF file_count(ls) > 1 THEN file_count(ls) ELSE 1
    IN FMul(FMul(FDiv(Coverage(l), FInt(100)), Frac(substantive_file_count(ls), n)),
            LEVELS[l].weight)

FullySatisfied ==
    \A l \in DOMAIN score.level_scores :
        /\ Coverage(l) = FInt(100)
        /\ substantive_file_count(score.level_scores[l]) = file_count(score.level_scores[l])

\* C9: the base score is 100 * sum(coverage/100 * substantive/max(files, 1)
\* * weight) / sum(weight) over the levels, the constant 12.5 cancelling
\* out; with every level at full coverage and only substantive files it is
\* exactly 100.
BaseScoreIsWeightedMean ==
    Scanned =>
        /\ score.base_score =
               FMul(FInt(100),
                    FDiv(FSum([ l \in DOMAIN score.level_scores |-> WeightedTerm(l) ]),
                         FSum([ l \in DOMAIN score.level_scores |-> LEVELS[l].weight ])))
        /\ FullySatisfied => score.base_score = FInt(100)

\* A scan of a tree that satisfies every pattern with substantive files only.
FullySatisfiedTableScanned ==
    Scanned /\ FullySatisfied /\ score.base_score = FInt(100)

\* C10: the rule table defines every level 1..8, and a scan leaves a
\* LevelScore for each of them.
AllEightLevelsDefined ==
    Scanned =>
        \A l \in 1..8 : l \in DOMAIN LEVELS /\ l \in DOMAIN score.level_scores

\* C11: a scan of a root that does not exist, or that is not a directory,
\* ends in an explicit failure: it returns no RepoScore, and
\* scan_multiple_repos does not pass such a path over in silence.
BadRootFailsExplicitly ==
    root_kind # "dir" => score.outcome \in { "none", "raised" }

\* C12: every FileMatch of a returned RepoScore was built from a stat() that
\* succeeded: a file that is gone by the time of its stat() is left out of
\* matched_files (and so does not make its pattern count as matched).
MatchedFilesWereStatted ==
    score.outcome = "returned" =>
        \A l \in DOMAIN score.level_scores :
            \A i \in DOMAIN score.level_scores[l].matched_files :
                score.level_scores[l].matched_files[i].last_modified # "None"

\* C13: when git times out, cannot be started, exits non-zero or prints
\* nothing, _get_file_commit_count gives 0 for every instruction file and
\* raises nothing, and the scan returns its RepoScore. (Every scan of SpecGit
\* meets one of these failures.)
GitFailureCountsZero ==
    Scanned =>
        /\ score.outcome = "returned"
        /\ ~score.cross_references.raised
        /\ \A f \in DOMAIN score.cross_references.commit_count :
               score.cross_references.commit_count[f] = 0

\* A scan returned with an instruction file whose git log had failed.
GitFailedOnInstructionFile ==
    /\ score.outcome = "returned"
    /\ ClaudeMd \in DOMAIN score.cross_references.commit_count

HasExcludedComponent(path) ==
    \E i \in DOMAIN Split(path) :
        Len(Split(path)[i]) = 1 /\ Split(path)[i][1] \in exclude_dirs

\* C14: no FileMatch of any level has a path, relative to the scan root,
\* with a component that is one of the excluded directory names.
NoMatchBelowExcludedDirectory ==
    Scanned =>
        \A l \in DOMAIN score.level_scores :
            \A i \in DOMAIN score.level_scores[l].matched_files :
                ~HasExcludedComponent(score.level_scores[l].matched_files[i].path)

\* A scan that matched files while .claude/skills/build/SKILL.md and
\* .github/vendor/notes.md were in the tree.
ExcludedFilesPresentAtScan ==
    /\ Scanned
    /\ files[BuildSkillMd] # Absent
    /\ files[VendorNotesMd] # Absent
    /\ file_count(score.level_scores[2]) > 0
    /\ file_count(score.level_scores[3]) > 0

\* C15: a file matched by a wildcard pattern matches it as a shell glob does,
\* segment by segment: `*` stands for no part of a path that contains "/".
WildcardMatchesPerSegment ==
    Scanned =>
        \A l \in DOMAIN score.level_scores :
            \A i \in DOMAIN score.level_scores[l].matched_files :
                LET m == score.level_scores[l].matched_files[i]
                IN "*" \in Range(m.pattern) => PathGlob(m.path, m.pattern)

\* C16: an instruction file whose only reference is [x](./ARCHITECTURE.md)
\* gives exactly one CrossReference, a markdown_link with target
\* ARCHITECTURE.md, resolved exactly when ARCHITECTURE.md is in the root or
\* under docs/, .github/ or .claude/.
OnlyLinkResolvesInRootOrDocDirs ==
    Scanned /\ files[ClaudeMd] = LinkDoc =>
        score.cross_references.references =
            << [ source_file |-> ClaudeMd,
                 target |-> << "ARCHITECTURE", ".md" >>,
                 reference_type |-> "markdown_link",
                 line_number |-> 1,
                 is_resolved |-> \E f \in LinkTargetFiles : files[f] # Absent ] >>

\* The link was resolved through docs/ARCHITECTURE.md alone.
LinkResolvedUnderDocs ==
    /\ Scanned
    /\ files[ClaudeMd] = LinkDoc
    /\ \A f \in LinkTargetFiles : files[f] # Absent <=> f = DocsArchitectureMd
    /\ score.cross_references.references[1].is_resolved

\* C17: a second scan of the same unchanged repository, with the same
\* configuration, on the same scanner or on a fresh one, yields the
\* level_scores, overall_level and overall_score of the scan before it.
SecondScanYieldsSameScore ==
    [][ ( /\ score.outcome = "returned"
          /\ score'.outcome = "returned"
          /\ UNCHANGED << files, dirs, repo_path, root_kind, yaml, yaml_categories >> )
        => /\ score'.level_scores = score.level_scores
           /\ score'.overall_level = score.overall_level
           /\ score'.overall_score = score.overall_score ]_vars

\* C18: whatever the interleaving of the steps of two scans that run on
\* separate scanners over different repositories, each scan ends with the
\* RepoScore it gives when it runs alone on a fresh scanner.
ParallelScanEqualsScanAlone ==
    score.outcome \in { "returned", "raised" } => score = scan(FreshCache, NoCommits)

\* One scan has returned while the scan of a different tree is between two
\* levels.
ScanReturnedBesideRunningScan ==
    /\ score.outcome = "returned"
    /\ parked.score.outcome = "scanning"
    /\ Len(parked.score.level_scores) = 3
    /\ parked.dirs # dirs

\* C19: at every level, no recommendation is put out whose category is in
\* skip_recommendations, and with focus_areas not empty every recommendation
\* put out has its category in focus_areas. (Stated for the recommendations
\* to which the generator gives a category.)
EmittedCategoriesPassFilters ==
    score.outcome = "returned" =>
        \A i \in DOMAIN score.recommendations :
            LET category == score.recommendations[i].category
            IN category # "" =>
                   /\ category \notin yaml_categories.skip_recommendations
                   /\ \/ yaml_categories.focus_areas = {}
                      \/ category \in yaml_categories.focus_areas

\* C20: with no AI tool detected, the level 1 recommendations hold the
\* GitHub Copilot and the Cursor suggestions next to the generic
\* instruction-file suggestion, and name no tool as detected.
ZeroToolsGetToolAgnosticAdvice ==
    ( /\ score.outcome = "returned"
      /\ score.detected_tools = << >>
      /\ score.overall_level = 1 )
    => LET ids == { score.recommendations[i].id : i \in DOMAIN score.recommendations }
       IN /\ { "start_here", "copilot_instructions", "cursorrules" } \subseteq ids
          /\ \A i \in DOMAIN score.recommendations :
                 Range(score.recommendations[i].names) \subseteq Range(score.detected_tools)

\* C21: a scan that puts the repository at level 2 or above has a positive
\* score: level 2, whose weight is positive, has a substantive matched file,
\* so its coverage, its substantive ratio and its contribution are positive,
\* and with them the base score and overall_score.
LevelAboveOneHasPositiveScore ==
    (Scanned /\ score.overall_level >= 2) =>
        /\ FLt(FInt(0), LEVELS[2].weight)
        /\ substantive_file_count(score.level_scores[2]) > 0
        /\ FLt(FInt(0), Coverage(2))
        /\ FLt(FInt(0), LevelContribution(score.level_scores[2], LEVELS[2].weight))
        /\ FLt(FInt(0), score.base_score)
        /\ FLt(FInt(0), score.overall_score)

\* A scan that passed the level gate.
ScannedAtLevelTwoOrAbove ==
    /\ Scanned
    /\ score.overall_level >= 2
    /\ FLt(FInt(0), score.overall_score)

\* The converse case: a repository left at level 1 whose base score is
\* positive all the same.
LevelOneWithPositiveScore ==
    /\ Scanned
    /\ score.overall_level = 1
    /\ FLt(FInt(0), score.base_score)

\* U, R and Q of the last scan: the distinct targets its references name,
\* the fraction of its references that resolve, and the mean quality_score
\* of the files it evaluated.
UniqueTargets ==
    Cardinality({ score.cross_references.references[i].target :
                    i \in DOMAIN score.cross_references.references })

ResolvedRate ==
    Frac(Cardinality({ i \in DOMAIN score.cross_references.references :
                         score.cross_references.references[i].is_resolved }),
         Len(score.cross_references.references))

MeanQuality ==
    LET quality == score.cross_references.quality_scores
    IN FDiv(SumValues(quality, DOMAIN quality), FInt(Cardinality(DOMAIN quality)))

\* C22: the bonus lies in [0, 10] and is min(10, min(U/2, 3) + 2*R + Q/2);
\* the two reference terms are 0 when there is no reference and the quality
\* term is 0 when no file was evaluated.
BonusIsCappedSumOfThreeTerms ==
    Scanned =>
        LET refs == score.cross_references.references
            quality == score.cross_references.quality_scores
            target_term == IF refs = << >> THEN FInt(0)
                           ELSE FMin(Frac(UniqueTargets, 2), FInt(3))
            resolved_term == IF refs = << >> THEN FInt(0)
                             ELSE FMul(FInt(2), ResolvedRate)
            quality_term == IF DOMAIN quality = {} THEN FInt(0)
                            ELSE FDiv(MeanQuality, FInt(2))
            bonus == score.cross_references.bonus_points
        IN /\ FLe(FInt(0), bonus) /\ FLe(bonus, FInt(10))
           /\ FLe(target_term, FInt(3))
           /\ bonus = FMin(FInt(10),
                           FAdd(FAdd(target_term, resolved_term), quality_term))

\* A scan with more than six distinct targets, some but not all of its
\* references resolved, and an evaluated file of positive quality.
BonusWithTargetsPastSaturation ==
    /\ Scanned
    /\ UniqueTargets > 6
    /\ FLt(FInt(0), ResolvedRate) /\ FLt(ResolvedRate, FInt(1))
    /\ FLt(FInt(0), MeanQuality)
    /\ FLt(FInt(3), score.cross_references.bonus_points)

\* The files the last scan evaluated, and the commit bonus it gave each.
Evaluated == DOMAIN score.cross_references.quality_scores

CommitPoints(f) ==
    IF score.cross_references.commit_count[f] >= 5 THEN FInt(2)
    ELSE IF score.cross_references.commit_count[f] >= 3 THEN FInt(1) ELSE FInt(0)

\* 2 points for a count at or above its saturation count, else none.
PointsAtSaturation(count, saturation) ==
    IF count >= saturation THEN FInt(2) ELSE FInt(0)

\* C23: each count-based contribution is at its 2.0 maximum from its
\* saturation count on (5 headers, 3 path mentions, 3 command mentions, 2
\* constraint mentions), so a file's quality_score is at least the 2 points
\* of every count that has reached its saturation count, up to the cap.
ContributionsFullAtSaturationCounts ==
    Scanned =>
        \A f \in Evaluated :
            FLe(FMin(FInt(10),
                     FSum(<< PointsAtSaturation(files[f].sections, 5),
                             PointsAtSaturation(files[f].paths, 3),
                             PointsAtSaturation(files[f].commands, 3),
                             PointsAtSaturation(files[f].constraints, 2) >>)),
                score.cross_references.quality_scores[f])

\* The substance bonus as stated: 0 below 50 words, 1 from 50 to 199, 2 from
\* 200 on.
SubstancePoints(words) ==
    IF words >= 200 THEN FInt(2) ELSE IF words >= 50 THEN FInt(1) ELSE FInt(0)

\* C24: the substance bonus is 0 for fewer than 50 words, 1.0 from 50 words
\* to 199 and 2.0 from 200 words on: quality_score is that bonus added to
\* the count contributions and the commit bonus, up to the cap.
SubstanceBonusByWordCount ==
    Scanned =>
        \A f \in Evaluated :
            score.cross_references.quality_scores[f] =
                FMin(FInt(10),
                     FSum(<< FMin(Frac(files[f].sections, 5), FInt(2)),
                             FMin(Frac(files[f].paths, 3), FInt(2)),
                             FMin(Frac(files[f].commands, 3), FInt(2)),
                             FMin(Frac(files[f].constraints, 2), FInt(2)),
                             SubstancePoints(files[f].words),
                             CommitPoints(f) >>))

\* The references the last scan took from source file f.
ReferencesOf(f) ==
    SelectSeq(score.cross_references.references, LAMBDA r : r.source_file = f)

\* The matches in the text of f that name `target` on `line`, by any
\* expression, once normalized.
MatchesNaming(f, target, line) ==
    { i \in DOMAIN files[f].matches :
        /\ lstrip(files[f].matches[i].target) = target
        /\ files[f].matches[i].line = line }

\* C25: the references of one source file hold each (normalized target,
\* line) once; of the matches that name one target on one line, the one of
\* the first expression in the order markdown_link, file_mention,
\* relative_path, directory_ref is kept; every (target, line) a text names
\* has its reference, also when another line or another source file names
\* the same target.
OneReferencePerTargetAndLine ==
    Scanned =>
        \A f \in Evaluated :
            LET refs == ReferencesOf(f)
            IN /\ \A i, j \in DOMAIN refs :
                      (refs[i].target = refs[j].target
                       /\ refs[i].line_number = refs[j].line_number) => i = j
               /\ \A i \in DOMAIN refs :
                      LET naming == MatchesNaming(f, refs[i].target, refs[i].line_number)
                      IN /\ naming # {}
                         /\ \A m \in naming :
                                FamilyIndex(refs[i].reference_type)
                                    <= FamilyIndex(files[f].matches[m].ref_type)
               /\ \A m \in DOMAIN files[f].matches :
                      \E i \in DOMAIN refs :
                          /\ refs[i].target = lstrip(files[f].matches[m].target)
                          /\ refs[i].line_number = files[f].matches[m].line

\* A scan of two source files that name the same file: in one of them a
\* line names it through two expressions, the later one in the text being
\* the earlier in the order of the expressions, and another line names it
\* again.
SameTargetThroughTwoExpressions ==
    /\ Scanned
    /\ files[ClaudeMd] = MentionTwiceDoc
    /\ files[CopilotMd] = MentionThenLinkDoc
    /\ Len(ReferencesOf(ClaudeMd)) = 2
    /\ \A i \in 1..2 : ReferencesOf(ClaudeMd)[i].reference_type = "file_mention"
    /\ Len(ReferencesOf(CopilotMd)) = 1
    /\ ReferencesOf(CopilotMd)[1].target = ReferencesOf(ClaudeMd)[1].target

\* A target without the one "./" it may start with.
StripDotSlash(target) ==
    IF Len(target) >= 2 /\ target[1] = "." /\ target[2] = "/"
    THEN SubSeq(target, 3, Len(target)) ELSE target

\* C26: a reference records the target as written, less one leading "./"
\* and nothing else, so a target that starts with a dot-directory or with
\* "../" keeps its dots; and it is resolved exactly when that path is found
\* (for a target inside the tree).
TargetsKeepTheirLeadingDots ==
    Scanned =>
        \A f \in Evaluated :
            \A m \in DOMAIN files[f].matches :
                LET written == files[f].matches[m].target
                IN \E i \in DOMAIN ReferencesOf(f) :
                       LET ref == ReferencesOf(f)[i]
                       IN /\ ref.line_number = files[f].matches[m].line
                          /\ ref.target = StripDotSlash(written)
                          /\ ".." \notin Range(written) =>
                                 (ref.is_resolved <=>
                                      _resolve_target(StripDotSlash(written)))

\* C27: what a wildcard pattern matches depends on the tree below the scan
\* root alone: a file of the tree that fits the pattern and has no excluded
\* directory name among its components below the root is matched, wherever
\* the root itself lies.
WildcardMatchesWhereverRootLies ==
    Scanned =>
        \A l \in DOMAIN LEVELS :
            \A p \in DOMAIN LEVELS[l].file_patterns :
                LET pattern == LEVELS[l].file_patterns[p]
                IN "*" \in Range(pattern) =>
                       \A f \in FilePaths :
                           (IsFile(f) /\ PathGlob(f, pattern) /\ ~HasExcludedComponent(f))
                               => \E i \in DOMAIN score.level_scores[l].matched_files :
                                      /\ score.level_scores[l].matched_files[i].path = f
                                      /\ score.level_scores[l].matched_files[i].pattern = pattern

\* C28: a scan on a scanner that has scanned before reports, for every
\* level, the directories that are there when it runs, and the coverage
\* that goes with them: what a fresh scanner reports of the same tree.
ScanSeesDirectoriesOfItsTime ==
    Scanned =>
        \A l \in DOMAIN score.level_scores :
            /\ Range(score.level_scores[l].matched_directories) =
                   { p \in Range(LEVELS[l].directory_patterns) : IsDir(p) }
            /\ score.level_scores[l].coverage_percent =
                   _scan_level(l, LEVELS[l], FreshCache, {}).coverage_percent

\* The repositories a distribution accounts for.
Counted(distribution) ==
    distribution[0] + distribution[1] + distribution[2] + distribution[3]
    + distribution[4]

AllFilePatterns == UNION { Range(LEVELS[l].file_patterns) : l \in DOMAIN LEVELS }

\* C30: for a repository named owner/repo whose tree is not empty,
\* get_relevant_files returns, without raising, the paths of the tree that
\* are always-checked files, SKILL.md files under a skills directory,
\* command .md files, or that equal or end with a file pattern of a level;
\* so scan_github_repo returns the temporary directory with those files in
\* it; and whenever it returns None no temporary directory is left.
GithubScanReturnsRelevantFiles ==
    out.call = "scan_github_repo" =>
        /\ (Len(out.repo_full_name) = 2 /\ out.tree # {}) =>
               /\ ~get_relevant_files(out.tree).raises
               /\ get_relevant_files(out.tree).paths =
                      { path \in out.tree : IsRelevant(path, AllFilePatterns) }
               /\ download_repo_files(out.tree).success
               /\ out.result.returned = TempDir
               /\ { path \in out.tree : IsRelevant(path, AllFilePatterns) }
                      \subseteq out.result.written
        /\ out.result.returned = "None" => ~out.result.temp_dir_exists

====
